---------------------------- MODULE Spec2Model ----------------------------
(***************************************************************************)
(* poly-cli: the watch-mode build scheduler (src/build.rs) and the build   *)
(* pipeline it runs (run_script and the builders it calls).                *)
(*                                                                         *)
(* Contexts.  The program has one watcher callback context (notify calls   *)
(* the closure of watch::_watch from a single thread, and Builder::run     *)
(* takes &mut self), and one build thread per std::thread::spawn of        *)
(* build().  Build threads carry no identity, so the set of live threads   *)
(* is a bag of thread records.                                             *)
(*                                                                         *)
(* Atomicity.  Each acquisition of the backlog mutex (insert, len, drain)  *)
(* and each load/store of the atomic flag is one step.  The flag is        *)
(* accessed with Ordering::Relaxed; every access is separated from the     *)
(* backlog accesses it is compared with by a lock or unlock of the mutex,  *)
(* so the interleaving of these steps covers the outcomes.                 *)
(***************************************************************************)
EXTENDS Integers, Sequences, FiniteSets, Bags, TLC

\* ------------------------------------------------------------------ bounds
\* Number of Builder::run calls the watcher makes in one behaviour.
MaxEnqueues == 3

\* ------------------------------------------------------------- data model
\* build.rs:13-16
ChangeType == {"Rust", "TypeScript"}

\* build.rs:186-189
BuildType == {"All", "OnlyTypeScript"}

\* main.rs:194 -- the watch command always builds with Env::Dev
WatchEnv == "Dev"

VARIABLES
    is_running,         \* State.is_running (AtomicBool)
    backlog,            \* State.backlog (Mutex<HashSet<ChangeType>>)
    post_build_runner,  \* Config.post_build_runner: "Some" or "None"
    watcher,            \* the watcher callback: position in Builder::run / build
    threads,            \* bag of build threads (closures spawned by build)
    enqueued,           \* number of Builder::run calls made so far
    pipeline,           \* one run_script invocation observed stage by stage
    watch,              \* watch::Config.gitignore and the last event on_event handled
    fs,                 \* the project's files: source trees and output directory
    cmd,                \* the Build command (main.rs:132-191) with --hash-assets
    started             \* number of run_script calls build() has spawned so far

vars == <<is_running, backlog, post_build_runner, watcher, threads, enqueued, pipeline, watch, fs, cmd, started>>

schedVars == <<is_running, backlog, post_build_runner, watcher, threads, enqueued, started>>


\* ------------------------------------------------------- pipeline stages
\* rust_builder.rs:73-102 (build_dev) and 104-133 (build_release): the same
\* four steps in both modes; only the arguments differ.
RustBuilderStages(env) ==
    <<"prepare_dirs", "cargo_build", "wasm_pack", "copy_wasm_to_dist">>

\* typescript_builder.rs:48-78: build_release returns Ok(()) at once,
\* build_dev runs npm install and then npm run build-dev.
TypeScriptBuilderStages(env) ==
    IF env = "Dev" THEN <<"npm_install", "npm_run_build_dev">> ELSE << >>

\* build.rs:174-178 with script_runner.rs:35-45
PostBuildStages(runner) ==
    IF runner = "Some" THEN <<"post_build_script">> ELSE << >>

\* Mutant of run_script: the match on build_type is lost and the native
\* builder runs on every path.
run_script_ignoring_build_type(build_type, runner) ==
    RustBuilderStages(WatchEnv) \o TypeScriptBuilderStages(WatchEnv)
        \o PostBuildStages(runner)

\* Mutant of run_script: on the full path the web bundler runs before the
\* native builder.
run_script_web_first(build_type, runner) ==
    (IF build_type = "All"
        THEN TypeScriptBuilderStages(WatchEnv) \o RustBuilderStages(WatchEnv)
        ELSE TypeScriptBuilderStages(WatchEnv))
    \o PostBuildStages(runner)

\* build.rs:154-183: the sequence of stages run_script goes through when no
\* stage returns an error.
run_script(build_type, runner) ==
    (IF build_type = "All"
        THEN RustBuilderStages(WatchEnv) \o TypeScriptBuilderStages(WatchEnv)
        ELSE TypeScriptBuilderStages(WatchEnv))
    \o PostBuildStages(runner)

\* The stages that start an external process through exec::run.
ExecStages ==
    {"cargo_build", "wasm_pack", "npm_install", "npm_run_build_dev", "post_build_script"}

\* What can happen to a stage.  An external process either cannot be started
\* (io::Error from Command::output) or runs to an exit status; a filesystem
\* step (create_dir_all, fs_extra copy) succeeds or fails.
Outcomes(stage) ==
    IF stage \in ExecStages
        THEN {"success", "exit_failure", "failed_to_execute"}
        ELSE {"success", "io_error"}

\* exec.rs:25-32: run() maps only the io::Error of Command::output to Err; the
\* exit status is inspected by Output::into_stdout (exec.rs:38-46) alone,
\* which no builder calls.
exec_run(outcome) ==
    IF outcome = "failed_to_execute" THEN "Err" ELSE "Ok"

\* The Result of one stage as its builder sees it (the `?` after each step).
StageResult(stage, outcome) ==
    IF stage \in ExecStages
        THEN exec_run(outcome)
        ELSE IF outcome = "io_error" THEN "Err" ELSE "Ok"

\* build.rs:24-28 with the map_err calls of run_script
BuildErrorOf(stage) ==
    IF stage \in {"prepare_dirs", "cargo_build", "wasm_pack", "copy_wasm_to_dist"}
        THEN "RustBuild"
        ELSE IF stage \in {"npm_install", "npm_run_build_dev"}
            THEN "TypescriptBuild"
            ELSE "PostBuildRunner"

\* One stage of run_script finishing with `outcome`: where run_script stands
\* next.  An Err leaves run_script through `?` (the remaining stages are
\* skipped); after the last stage run_script returns Ok(()).
StageStep(build_type, runner, idx, outcome) ==
    LET plan  == run_script(build_type, runner)
        stage == plan[idx]
    IN  IF StageResult(stage, outcome) = "Err"
            THEN [pc |-> "returned", stage |-> 0, err |-> BuildErrorOf(stage)]
            ELSE IF idx = Len(plan)
                THEN [pc |-> "returned", stage |-> 0, err |-> "none"]
                ELSE [pc |-> "run_script", stage |-> idx + 1, err |-> "none"]

\* Mutant of from_changes: any set containing TypeScript takes the web-only path.
from_changes_any_typescript(changes) ==
    IF "TypeScript" \in changes THEN "OnlyTypeScript" ELSE "All"

\* build.rs:191-200
from_changes(changes) ==
    IF changes = {"TypeScript"} THEN "OnlyTypeScript" ELSE "All"


\* build.rs:120-137: what handle_build_error prints for a BuildError.
handle_build_error(err) ==
    IF err = "RustBuild" THEN "Rust build failed"
    ELSE IF err = "TypescriptBuild" THEN "TypeScript build failed"
    ELSE IF err = "PostBuildRunner" THEN "Post-build script failed"
    ELSE "none"

\* ------------------------------------------------------ scheduler records
\* A context executing build(): the watcher callback or a build thread.
\*   pc         where it stands
\*   build_type the BuildType computed at build.rs:91 (held from drain to spawn)
\*   changes    the drained set of build.rs:84-89 (held from drain to spawn)
\*   stage      index of the stage of run_script in progress (threads only)
\*   reported   what handle_build_error printed for this thread's pipeline
Ctx(pc) ==
    [pc |-> pc, build_type |-> "none", changes |-> {}, stage |-> 0, reported |-> "none"]

\* build.rs:93-94: the closure handed to std::thread::spawn starts run_script.
NewThread(build_type, runner) ==
    IF Len(run_script(build_type, runner)) = 0
        THEN Ctx("returned")
        ELSE [Ctx("run_script") EXCEPT !.build_type = build_type, !.stage = 1]

InFlight == {t \in BagToSet(threads) : t.pc = "run_script"}

\* Number of pipeline executions (run_script calls) in progress.
NumInFlight == BagCardinality([t \in InFlight |-> threads[t]])

Replace(old, new) == (threads (-) SetToBag({old})) (+) SetToBag({new})

\* ------------------------------------------------------------------- Init
\* build.rs:145-151 (State::new) and build.rs:44-49 (Builder::new)
InitScheduler ==
    /\ is_running = FALSE
    /\ backlog = {}
    /\ post_build_runner \in {"Some", "None"}
    /\ watcher = Ctx("idle")
    /\ threads = EmptyBag
    /\ enqueued = 0
    /\ started = 0

NoPipeline == [pc |-> "none"]

\* No event handled yet; the scheduler alone is observed.
NoEvent ==
    [kind |-> "none", paths |-> << >>, called |-> FALSE, result |-> "none", printed |-> ""]

NoWatch == [gitignore |-> "None", event |-> NoEvent, failed |-> FALSE]

\* The Build command is not run; no file is looked at.
NoFiles == [src |-> << >>, dist |-> << >>]

NoCommand == [pc |-> "none"]

Init ==
    /\ InitScheduler
    /\ pipeline = NoPipeline
    /\ watch = NoWatch
    /\ fs = NoFiles
    /\ cmd = NoCommand

\* ----------------------------------------------- the watcher: Builder::run
\* build.rs:52-56: lock the backlog and insert the change.
BuilderRun(change) ==
    /\ watcher.pc = "idle"
    /\ enqueued < MaxEnqueues
    /\ backlog' = backlog \cup {change}
    /\ watcher' = Ctx("load")
    /\ enqueued' = enqueued + 1
    /\ UNCHANGED <<is_running, post_build_runner, threads, pipeline, started>>

\* Builder::run called with a change, whatever event it came from.
Enqueue(change) ==
    /\ BuilderRun(change)
    /\ UNCHANGED <<watch, fs, cmd, started>>

\* build.rs:58-62 with 65-69: load the flag; return Ok(()) when a build runs,
\* else call build().
WatcherLoad ==
    /\ watcher.pc = "load"
    /\ watcher' = IF is_running THEN Ctx("idle") ELSE Ctx("len")
    /\ UNCHANGED <<is_running, backlog, post_build_runner, threads, enqueued, pipeline, watch, fs, cmd, started>>

\* build.rs:73-79 and 108-110: lock, read len(), unlock; empty: return Ok(()).
WatcherLen ==
    /\ watcher.pc = "len"
    /\ watcher' = IF Cardinality(backlog) > 0 THEN Ctx("store") ELSE Ctx("idle")
    /\ UNCHANGED <<is_running, backlog, post_build_runner, threads, enqueued, pipeline, watch, fs, cmd, started>>

\* build.rs:80-82
WatcherStore ==
    /\ watcher.pc = "store"
    /\ is_running' = TRUE
    /\ watcher' = Ctx("drain")
    /\ UNCHANGED <<backlog, post_build_runner, threads, enqueued, pipeline, watch, fs, cmd, started>>

\* build.rs:84-91: lock, drain() into a HashSet, unlock; BuildType::from_changes.
WatcherDrain ==
    /\ watcher.pc = "drain"
    /\ watcher' = [Ctx("spawn") EXCEPT !.changes = backlog,
                                       !.build_type = from_changes(backlog)]
    /\ backlog' = {}
    /\ UNCHANGED <<is_running, post_build_runner, threads, enqueued, pipeline, watch, fs, cmd, started>>

\* Mutant of WatcherSpawn: the JoinHandle is joined, so Builder::run returns
\* only when the spawned closure (and the builds it chains) has ended.
WatcherSpawnJoin ==
    \/ /\ watcher.pc = "spawn"
       /\ threads' = threads (+) SetToBag({NewThread(watcher.build_type, post_build_runner)})
       /\ watcher' = Ctx("join")
       /\ started' = started + 1
       /\ UNCHANGED <<is_running, backlog, post_build_runner, enqueued, pipeline, watch, fs, cmd>>
    \/ /\ watcher.pc = "join"
       /\ threads = EmptyBag
       /\ watcher' = Ctx("idle")
       /\ UNCHANGED <<is_running, backlog, post_build_runner, threads, enqueued, pipeline, watch, fs, cmd, started>>

\* build.rs:93-107: spawn the build thread and return Ok(()) without joining.
WatcherSpawn ==
    /\ watcher.pc = "spawn"
    /\ threads' = threads (+) SetToBag({NewThread(watcher.build_type, post_build_runner)})
    /\ watcher' = Ctx("idle")
    /\ started' = started + 1
    /\ UNCHANGED <<is_running, backlog, post_build_runner, enqueued, pipeline, watch, fs, cmd>>

\* ------------------------------------------- a build thread: the closure
\* build.rs:94-96: one stage of run_script finishes; an Err ends run_script
\* and is printed by handle_build_error.
ThreadStage(t) ==
    /\ t.pc = "run_script"
    /\ \E outcome \in Outcomes(run_script(t.build_type, post_build_runner)[t.stage]) :
         LET nxt == StageStep(t.build_type, post_build_runner, t.stage, outcome)
         IN  threads' = Replace(t,
                IF nxt.pc = "returned"
                    THEN [Ctx("returned") EXCEPT !.reported = handle_build_error(nxt.err)]
                    ELSE [t EXCEPT !.stage = nxt.stage])
    /\ UNCHANGED <<is_running, backlog, post_build_runner, watcher, enqueued, pipeline, watch, fs, cmd, started>>

\* Mutant of ThreadClear: the error branch of the closure returns after
\* handle_build_error, before the flag is cleared and build() called again.
ThreadClearReturnsOnError(t) ==
    /\ t.pc = "returned"
    /\ IF t.reported # "none"
          THEN /\ threads' = threads (-) SetToBag({t})
               /\ UNCHANGED is_running
          ELSE /\ is_running' = FALSE
               /\ threads' = Replace(t, Ctx("len"))
    /\ UNCHANGED <<backlog, post_build_runner, watcher, enqueued, pipeline, watch, fs, cmd, started>>

\* Mutant of ThreadClear: the closure clears the flag and ends without
\* calling build() again.
ThreadClearNoRebuild(t) ==
    /\ t.pc = "returned"
    /\ is_running' = FALSE
    /\ threads' = threads (-) SetToBag({t})
    /\ UNCHANGED <<backlog, post_build_runner, watcher, enqueued, pipeline, watch, fs, cmd, started>>

\* build.rs:98-102: store false, then call build() again.
ThreadClear(t) ==
    /\ t.pc = "returned"
    /\ is_running' = FALSE
    /\ threads' = Replace(t, Ctx("len"))
    /\ UNCHANGED <<backlog, post_build_runner, watcher, enqueued, pipeline, watch, fs, cmd, started>>

\* build.rs:73-79 and 108-110 in the thread; empty: build returns, thread ends.
ThreadLen(t) ==
    /\ t.pc = "len"
    /\ threads' = IF Cardinality(backlog) > 0
                    THEN Replace(t, Ctx("store"))
                    ELSE threads (-) SetToBag({t})
    /\ UNCHANGED <<is_running, backlog, post_build_runner, watcher, enqueued, pipeline, watch, fs, cmd, started>>

\* build.rs:80-82 in the thread
ThreadStore(t) ==
    /\ t.pc = "store"
    /\ is_running' = TRUE
    /\ threads' = Replace(t, Ctx("drain"))
    /\ UNCHANGED <<backlog, post_build_runner, watcher, enqueued, pipeline, watch, fs, cmd, started>>

\* build.rs:84-91 in the thread
ThreadDrain(t) ==
    /\ t.pc = "drain"
    /\ threads' = Replace(t, [Ctx("spawn") EXCEPT !.changes = backlog,
                                                  !.build_type = from_changes(backlog)])
    /\ backlog' = {}
    /\ UNCHANGED <<is_running, post_build_runner, watcher, enqueued, pipeline, watch, fs, cmd, started>>

\* build.rs:93-107 in the thread: spawn the next build thread, return, end.
ThreadSpawn(t) ==
    /\ t.pc = "spawn"
    /\ threads' = Replace(t, NewThread(t.build_type, post_build_runner))
    /\ started' = started + 1
    /\ UNCHANGED <<is_running, backlog, post_build_runner, watcher, enqueued, pipeline, watch, fs, cmd>>

WatcherStep ==
    \/ WatcherLoad
    \/ WatcherLen
    \/ WatcherStore
    \/ WatcherDrain
    \/ WatcherSpawn

ThreadStep ==
    \E t \in BagToSet(threads) :
        \/ ThreadStage(t)
        \/ ThreadClear(t)
        \/ ThreadLen(t)
        \/ ThreadStore(t)
        \/ ThreadDrain(t)
        \/ ThreadSpawn(t)

Next ==
    \/ \E change \in ChangeType : Enqueue(change)
    \/ WatcherLoad
    \/ WatcherLen
    \/ WatcherStore
    \/ WatcherDrain
    \/ WatcherSpawn
    \/ \E t \in BagToSet(threads) : ThreadStage(t)
    \/ \E t \in BagToSet(threads) : ThreadClear(t)
    \/ \E t \in BagToSet(threads) : ThreadLen(t)
    \/ \E t \in BagToSet(threads) : ThreadStore(t)
    \/ \E t \in BagToSet(threads) : ThreadDrain(t)
    \/ \E t \in BagToSet(threads) : ThreadSpawn(t)

Spec == Init /\ [][Next]_vars


\* ------------------------------------ one run_script invocation, observed
\* The scheduler's threads keep no history.  To state what one pipeline
\* execution does, SpecPipeline follows a single run_script call for every
\* drained change set and hook configuration and records
\*   trace        the stages started so far, in order
\*   done         how many of them have finished
\*   exit_failed  the stages whose process ran and exited with a failure status
\*   reported     what handle_build_error printed (build.rs:94-96)
PipelineStart(changes, runner) ==
    LET bt   == from_changes(changes)
        plan == run_script(bt, runner)
    IN  [pc |-> IF Len(plan) = 0 THEN "returned" ELSE "run_script",
         changes |-> changes, build_type |-> bt,
         stage |-> IF Len(plan) = 0 THEN 0 ELSE 1,
         trace |-> IF Len(plan) = 0 THEN << >> ELSE <<plan[1]>>,
         done |-> 0, exit_failed |-> {}, err |-> "none", reported |-> "none"]

InitPipeline ==
    /\ InitScheduler
    /\ \E changes \in SUBSET ChangeType :
         pipeline = PipelineStart(changes, post_build_runner)
    /\ watch = NoWatch
    /\ fs = NoFiles
    /\ cmd = NoCommand

\* build.rs:154-183 with 94-96: the stage in progress finishes; run_script
\* either starts the next stage or returns, and an Err is printed.
PipelineStage ==
    /\ pipeline.pc = "run_script"
    /\ LET plan  == run_script(pipeline.build_type, post_build_runner)
           stage == plan[pipeline.stage]
       IN  \E outcome \in Outcomes(stage) :
             LET nxt == StageStep(pipeline.build_type, post_build_runner,
                                  pipeline.stage, outcome)
             IN  pipeline' =
                   [pipeline EXCEPT
                      !.pc = nxt.pc,
                      !.stage = nxt.stage,
                      !.err = nxt.err,
                      !.reported = handle_build_error(nxt.err),
                      !.done = @ + 1,
                      !.exit_failed =
                          IF outcome = "exit_failure" THEN @ \cup {stage} ELSE @,
                      !.trace =
                          IF nxt.pc = "run_script" THEN Append(@, plan[nxt.stage]) ELSE @]
    /\ UNCHANGED <<schedVars, watch, fs, cmd>>

NextPipeline == PipelineStage

SpecPipeline == InitPipeline /\ [][NextPipeline]_vars


\* ------------------------------------------------ the change classifier
\* watch.rs:71-82 (on_event) in front of Builder::run.
\*
\* A file name is a sequence of tokens, "." being the dot; a path is
\*   name     its file name
\*   root     whether it lies under Config.current_dir (strip_prefix succeeds)
\*   matches  whether a rule of the project's .gitignore matches it
FileNames ==
    { <<"lib", ".", "rs">>, <<"app", ".", "ts">>, <<"logo", ".", "png">>,
      <<"Makefile">>, <<".", "rs">> }

WatchedPaths ==
    { [name |-> n, root |-> TRUE, matches |-> FALSE] : n \in FileNames }
    \cup { [name |-> <<"lib", ".", "rs">>, root |-> TRUE, matches |-> TRUE],
           [name |-> <<"lib", ".", "rs">>, root |-> FALSE, matches |-> FALSE] }

\* Event.paths: none, one, or two (a rename carries the old and the new path).
EventPaths ==
    { << >> } \cup { <<p>> : p \in WatchedPaths }
    \cup { << [name |-> <<"logo", ".", "png">>, root |-> TRUE, matches |-> FALSE],
              [name |-> <<"lib", ".", "rs">>, root |-> TRUE, matches |-> FALSE] >> }

\* notify::EventKind as filepath_from_event distinguishes it, and the Err of
\* the watcher itself.
EventKinds ==
    { "NotifyError", "Create(File)", "Create(Folder)", "Modify(Data(Content))",
      "Modify(Data(Size))", "Modify(Name)", "Modify(Metadata)", "Remove", "Access" }

Events == { [kind |-> k, paths |-> ps] : k \in EventKinds, ps \in EventPaths }

\* std::path::Path::extension: None without a dot in the file name, None
\* when the only dot is the leading one, else the part after the last dot.
\* watch.rs:105 turns None into the empty string (unwrap_or_default).
extension(name) ==
    LET dots == { i \in 1..Len(name) : name[i] = "." }
    IN  IF dots = {} THEN << >>
        ELSE LET last == CHOOSE i \in dots : \A j \in dots : j <= i
             IN  IF last = 1 THEN << >> ELSE SubSeq(name, last + 1, Len(name))

\* Mutant of filepath_from_event: every Create kind yields the first path.
filepath_from_event_any_create(event) ==
    IF event.kind \in {"Create(File)", "Create(Folder)", "Modify(Data(Content))",
                       "Modify(Name)", "Remove"}
        THEN IF Len(event.paths) = 0
                THEN [ok |-> FALSE, err |-> "EventFilePath"]
                ELSE [ok |-> TRUE, path |-> event.paths[1]]
        ELSE [ok |-> FALSE, err |-> "IgnoredEvent"]

\* watch.rs:130-194
filepath_from_event(event) ==
    IF event.kind \in {"Create(File)", "Modify(Data(Content))", "Modify(Name)", "Remove"}
        THEN IF Len(event.paths) = 0
                THEN [ok |-> FALSE, err |-> "EventFilePath"]
                ELSE [ok |-> TRUE, path |-> event.paths[1]]
        ELSE [ok |-> FALSE, err |-> "IgnoredEvent"]

\* watch.rs:118-128
is_ignored(gitignore, path) ==
    IF gitignore = "Some" THEN path.matches ELSE FALSE

\* Mutant of classify_file: the extension is tested before the ignore rules.
classify_file_extension_first(gitignore, path) ==
    IF extension(path.name) = <<"rs">> THEN [ok |-> TRUE, change |-> "Rust"]
    ELSE IF extension(path.name) = <<"ts">> THEN [ok |-> TRUE, change |-> "TypeScript"]
    ELSE [ok |-> FALSE, err |-> "IgnoredFileType"]

\* Mutant of classify_file: every file that is not ignored and is not a
\* TypeScript file counts as a Rust change.
classify_file_default_rust(gitignore, path) ==
    IF is_ignored(gitignore, path) THEN [ok |-> FALSE, err |-> "IgnoredFileType"]
    ELSE IF extension(path.name) = <<"ts">> THEN [ok |-> TRUE, change |-> "TypeScript"]
    ELSE [ok |-> TRUE, change |-> "Rust"]

\* watch.rs:104-116
classify_file(gitignore, path) ==
    IF is_ignored(gitignore, path) THEN [ok |-> FALSE, err |-> "IgnoredFileType"]
    ELSE IF extension(path.name) = <<"rs">> THEN [ok |-> TRUE, change |-> "Rust"]
    ELSE IF extension(path.name) = <<"ts">> THEN [ok |-> TRUE, change |-> "TypeScript"]
    ELSE [ok |-> FALSE, err |-> "IgnoredFileType"]

\* watch.rs:71-78: the change on_event passes to Builder::run, or the Error
\* it returns before the call.
on_event(gitignore, event) ==
    IF event.kind = "NotifyError" THEN [ok |-> FALSE, err |-> "Notify"]
    ELSE LET file_path == filepath_from_event(event)
         IN  IF ~file_path.ok THEN file_path
             ELSE IF ~file_path.path.root THEN [ok |-> FALSE, err |-> "RelativePath"]
             ELSE classify_file(gitignore, file_path.path)

\* Number of changes the classifier hands to Builder::run in one behaviour.
MaxWatchedChanges == 1

\* watch.rs:28 (read_to_string(".gitignore").ok()) with the scheduler's Init
InitWatch ==
    /\ InitScheduler
    /\ pipeline = NoPipeline
    /\ \E gitignore \in {"Some", "None"} :
         watch = [gitignore |-> gitignore, event |-> NoEvent, failed |-> FALSE]
    /\ fs = NoFiles
    /\ cmd = NoCommand

\* watch.rs:35-41: the variants of Error that on_event makes while it
\* classifies an event (Notify is the watcher's own error).
ClassificationErrors == {"IgnoredEvent", "EventFilePath", "RelativePath", "IgnoredFileType"}

\* Mutant of handle_error: a path outside the project root ends the process.
handle_error_exits_on_relative_path(err) ==
    CASE err = "Notify" -> [printed |-> "Watcher error", exits |-> FALSE]
      [] err = "EventFilePath" -> [printed |-> "Failed to get path from event", exits |-> FALSE]
      [] err = "RelativePath" -> [printed |-> "Failed to get relative path", exits |-> TRUE]
      [] OTHER -> [printed |-> "", exits |-> FALSE]

\* watch.rs:84-102: what is printed for an Err of on_event; the callback
\* returns in every case.
handle_error(err) ==
    CASE err = "Notify" -> [printed |-> "Watcher error", exits |-> FALSE]
      [] err = "EventFilePath" -> [printed |-> "Failed to get path from event", exits |-> FALSE]
      [] err = "RelativePath" -> [printed |-> "Failed to get relative path", exits |-> FALSE]
      [] OTHER -> [printed |-> "", exits |-> FALSE]

\* watch.rs:53-58 with 71-82: the callback handles one event.  An Err is left
\* to handle_error.  watch.failed tells that some event so far ended in a
\* classification error.
OnEvent(event) ==
    LET res == on_event(watch.gitignore, event)
    IN  /\ watcher.pc = "idle"
        /\ watch' = [watch EXCEPT
                       !.event = [kind |-> event.kind, paths |-> event.paths,
                                  called |-> res.ok,
                                  result |-> IF res.ok THEN res.change ELSE res.err,
                                  printed |-> IF res.ok THEN ""
                                              ELSE handle_error(res.err).printed],
                       !.failed = @ \/ (~res.ok /\ res.err \in ClassificationErrors)]
        /\ IF res.ok
              THEN /\ enqueued < MaxWatchedChanges
                   /\ BuilderRun(res.change)
              ELSE IF handle_error(res.err).exits
                 THEN /\ watcher' = Ctx("exited")
                      /\ UNCHANGED <<is_running, backlog, post_build_runner, threads,
                                     enqueued, pipeline>>
                 ELSE UNCHANGED <<schedVars, pipeline>>
        /\ UNCHANGED <<fs, cmd, started>>

NextWatch ==
    \/ \E event \in Events : OnEvent(event)
    \/ (WatcherStep \/ ThreadStep)

SpecWatch == InitWatch /\ [][NextWatch]_vars

\* ------------------------------------------------------------- scheduling
\* Every build thread is an OS thread and the watcher callback runs on the
\* notify thread: a context that can take a step eventually takes one.  New
\* events (Enqueue) are the environment's and carry no fairness.
SpecFair ==
    /\ Init
    /\ [][Next]_vars
    /\ WF_vars(WatcherStep)
    /\ WF_vars(ThreadStep)

\* Only the watcher callback is scheduled; build threads may stall for ever
\* (an external process that never ends).
SpecWatcherFair ==
    /\ Init
    /\ [][Next]_vars
    /\ WF_vars(WatcherStep)

\* ------------------------------------------- backlog lock acquisition fails
\* Mutex::lock returns Err when the mutex is poisoned; every lock() of
\* build.rs maps it to Error::BacklogLock and leaves through `?`.  SpecLock
\* lets each acquisition fail or succeed.

\* build.rs:52-55: the insert is not made; watch.rs:79 drops the Err.
EnqueueLockFails ==
    /\ watcher.pc = "idle"
    /\ enqueued < MaxEnqueues
    /\ enqueued' = enqueued + 1
    /\ UNCHANGED <<is_running, backlog, post_build_runner, watcher, threads, pipeline, watch, fs, cmd, started>>

\* build.rs:73-76 in the watcher: build returns Err before anything is stored.
WatcherLenLockFails ==
    /\ watcher.pc = "len"
    /\ watcher' = Ctx("idle")
    /\ UNCHANGED <<is_running, backlog, post_build_runner, threads, enqueued, pipeline, watch, fs, cmd, started>>

\* build.rs:84-87 in the watcher: build returns Err after is_running was
\* stored true (build.rs:80-82) and before the thread is spawned.
WatcherDrainLockFails ==
    /\ watcher.pc = "drain"
    /\ watcher' = Ctx("idle")
    /\ UNCHANGED <<is_running, backlog, post_build_runner, threads, enqueued, pipeline, watch, fs, cmd, started>>

\* build.rs:73-76 in a thread: build returns Err, handle_error prints
\* (build.rs:102-104), the thread ends.
ThreadLenLockFails(t) ==
    /\ t.pc = "len"
    /\ threads' = threads (-) SetToBag({t})
    /\ UNCHANGED <<is_running, backlog, post_build_runner, watcher, enqueued, pipeline, watch, fs, cmd, started>>

\* build.rs:84-87 in a thread: as in the watcher, then the thread ends.
ThreadDrainLockFails(t) ==
    /\ t.pc = "drain"
    /\ threads' = threads (-) SetToBag({t})
    /\ UNCHANGED <<is_running, backlog, post_build_runner, watcher, enqueued, pipeline, watch, fs, cmd, started>>

NextLock ==
    \/ Next
    \/ EnqueueLockFails
    \/ WatcherLenLockFails
    \/ WatcherDrainLockFails
    \/ \E t \in BagToSet(threads) : ThreadLenLockFails(t)
    \/ \E t \in BagToSet(threads) : ThreadDrainLockFails(t)

SpecLock == Init /\ [][NextLock]_vars


\* ================================================================ claims
\* The contexts that stand between the drain and the spawn of build(): each
\* holds the change set it drained and the BuildType computed from it.
Spawning ==
    {t \in BagToSet(threads) : t.pc = "spawn"}
        \cup (IF watcher.pc = "spawn" THEN {watcher} ELSE {})

\* Change ch is in the set drained for a pipeline execution about to start.
Drained(ch) == \E c \in Spawning : ch \in c.changes

\* C1: at most one pipeline execution (run_script) is in flight at any time,
\* whatever the interleaving of Builder::run with a build thread's completion.
C1_AtMostOnePipelineInFlight == NumInFlight <= 1

\* C2: no change is dropped: a change in the backlog is eventually contained
\* in the change set drained for some pipeline execution (every pipeline
\* terminates, every lock acquisition succeeds).
C2_NoChangeDropped ==
    \A ch \in ChangeType : (ch \in backlog) ~> Drained(ch)

\* C2 witness: a change inserted while a build was running has been drained
\* by the build thread's own re-check of the backlog.
C2_Witness ==
    \E t \in BagToSet(threads) : t.pc = "spawn" /\ t.changes # {}

\* The drain step of build(), in either context.
DrainStep ==
    \/ WatcherDrain
    \/ \E t \in BagToSet(threads) : ThreadDrain(t)

\* C3: the drain is an atomic snapshot-and-clear (the set handed to the
\* pipeline is the whole backlog at that instant and the backlog is empty
\* afterwards), and the emptiness decision and the drain refer to the same
\* backlog content: a build() that decided "not empty" drains a non-empty set.
C3_DrainMatchesEmptinessDecision ==
    /\ [][DrainStep =>
            /\ backlog' = {}
            /\ \E c \in Spawning' : c.changes = backlog]_vars
    /\ [](\A c \in Spawning : c.changes # {})

\* C4: a drained set equal to {TypeScript} selects OnlyTypeScript; {Rust} and
\* {Rust, TypeScript} select All.
C4_StagePathSelection ==
    \A c \in Spawning :
        /\ c.changes = {"TypeScript"} => c.build_type = "OnlyTypeScript"
        /\ c.changes \in {{"Rust"}, {"Rust", "TypeScript"}} => c.build_type = "All"

\* C4 witness: a mixed set has been drained and the full path selected.
C4_Witness ==
    \E c \in Spawning :
        c.changes = {"Rust", "TypeScript"} /\ c.build_type = "All"


\* The stages of the web bundler (typescript_builder.rs:52-65).
WebBundlerStages == <<"npm_install", "npm_run_build_dev">>

\* The hook, when one is configured.
HookStage ==
    IF post_build_runner = "Some" THEN <<"post_build_script">> ELSE << >>

IsPrefix(s, t) == Len(s) <= Len(t) /\ s = SubSeq(t, 1, Len(s))

\* C5 as stated: when the drained set is exactly {TypeScript}, only the
\* web-bundler stage is executed: no native compile, no WebAssembly packaging
\* and no hook.
C5_WebOnlyRunsOnlyBundler ==
    pipeline.changes = {"TypeScript"} =>
        \A i \in 1..Len(pipeline.trace) :
            pipeline.trace[i] \in {"npm_install", "npm_run_build_dev"}

\* C5 amended: when the drained set is exactly {TypeScript}, the execution
\* runs the web-bundler stage and then the hook when one is configured;
\* neither the native compile nor the WebAssembly packaging is executed.
C5_WebOnlyRunsBundlerThenHook ==
    pipeline.changes = {"TypeScript"} =>
        /\ IsPrefix(pipeline.trace, WebBundlerStages \o HookStage)
        /\ (pipeline.pc = "returned" /\ pipeline.err = "none")
              => pipeline.trace = WebBundlerStages \o HookStage

\* C5 witness: a web-only execution has completed and ran the hook last.
C5_Witness ==
    /\ pipeline.changes = {"TypeScript"}
    /\ pipeline.pc = "returned"
    /\ pipeline.err = "none"
    /\ pipeline.trace = <<"npm_install", "npm_run_build_dev", "post_build_script">>

\* The full path in the order the claim gives: native compile, WebAssembly
\* packaging, web bundler build (with the filesystem steps of the native
\* builder around the first two).
FullPathStages ==
    <<"prepare_dirs", "cargo_build", "wasm_pack", "copy_wasm_to_dist",
      "npm_install", "npm_run_build_dev">>

\* C6: on the full path the stages run in the order native compile,
\* WebAssembly packaging, web bundler build, optional hook; a stage starts
\* only when every earlier one has completed; the hook runs only when
\* configured.
C6_FullPathOrder ==
    pipeline.build_type = "All" =>
        /\ IsPrefix(pipeline.trace, FullPathStages \o HookStage)
        /\ pipeline.pc = "run_script" => pipeline.done = Len(pipeline.trace) - 1
        /\ (pipeline.pc = "returned" /\ pipeline.err = "none")
              => pipeline.trace = FullPathStages \o HookStage

\* C6 witness: a full-path execution with a hook has run to its end.
C6_Witness ==
    /\ pipeline.build_type = "All"
    /\ pipeline.pc = "returned"
    /\ pipeline.err = "none"
    /\ post_build_runner = "Some"
    /\ Len(pipeline.trace) = 7

\* A build thread's pipeline has failed and the failure has been printed.
FailedBuildReported ==
    \E t \in BagToSet(threads) : t.pc = "returned" /\ t.reported # "none"

\* C7: a stage failure ends only that pipeline execution: the failure is
\* reported, then the flag is cleared and the backlog re-checked, so a change
\* enqueued during the failed build is drained for a later build.
C7_FailedBuildKeepsScheduling ==
    \A ch \in ChangeType :
        (FailedBuildReported /\ ch \in backlog) ~> Drained(ch)

\* C7 witness: a build has failed while a change waits in the backlog.
C7_Witness == FailedBuildReported /\ backlog # {} /\ watcher.pc = "idle"

\* C8: when an external process was started and exited with a failure
\* status, its stage returns an error, the failure is reported and no later
\* stage of that invocation is executed.
C8_ExitFailureAbortsPipeline ==
    \A stage \in pipeline.exit_failed :
        /\ pipeline.pc = "returned"
        /\ pipeline.err = BuildErrorOf(stage)
        /\ pipeline.reported # "none"
        /\ pipeline.trace[Len(pipeline.trace)] = stage

\* C9: a failed acquisition of the backlog lock abandons only that
\* iteration: the flag is never left true with no pipeline in flight and none
\* being started or finished, so a later Builder::run still starts a build.
C9_LockFailureKeepsSchedulerUsable ==
    is_running =>
        \/ \E t \in BagToSet(threads) : t.pc \in {"drain", "spawn", "run_script", "returned"}
        \/ watcher.pc \in {"drain", "spawn"}

\* C10: Builder::run never waits for a build: once called it returns even if
\* no build thread ever takes another step.
C10_EnqueueNeverWaitsForBuild ==
    (watcher.pc # "idle") ~> (watcher.pc = "idle")

\* C10 witness: Builder::run has returned after spawning while that pipeline
\* is in flight, and a further change has been enqueued meanwhile.
C10_Witness ==
    /\ watcher.pc = "idle"
    /\ NumInFlight >= 1
    /\ enqueued >= 2
    /\ backlog # {}


\* ------------------------------------------------------------ C11, C12
\* A spawned closure that has not yet stored false: run_script is in
\* progress or has just returned (build.rs:94-100).
PipelineLive ==
    \E t \in BagToSet(threads) : t.pc \in {"run_script", "returned"}

\* A build() call stands between its store of true and its thread::spawn
\* (build.rs:80-93).
BeingStarted ==
    \/ watcher.pc \in {"drain", "spawn"}
    \/ \E t \in BagToSet(threads) : t.pc \in {"drain", "spawn"}

\* C11: the running flag is true only while a pipeline invocation is in
\* flight or is being started by the step that set the flag.
C11_RunningOnlyWhilePipelineInFlight ==
    is_running => (PipelineLive \/ BeingStarted)

\* No build() call is in progress and no build thread is alive.
AtRest == watcher.pc = "idle" /\ threads = EmptyBag

\* Quiescent, as the glossary defines it: no running build, empty backlog.
Quiescent == ~is_running /\ NumInFlight = 0 /\ backlog = {}

Classified(event) ==
    /\ event.kind # "NotifyError"
    /\ filepath_from_event(event).ok
    /\ event.paths[1].root

Unrecognised(event) ==
    /\ Len(event.paths) > 0
    /\ extension(event.paths[1].name) \notin {<<"rs">>, <<"ts">>}

\* C13: handling an event whose first path has an extension other than rs
\* or ts, or has none, does not call Builder::run and leaves the backlog,
\* the running flag and the watcher's position in the scheduler unchanged.
\* (Only OnEvent writes watch.event; a step that leaves it as it was while
\* handling such an event again changes nothing at all.)
C13_UnrecognisedNeverEnqueued ==
    [][(watch'.event # watch.event /\ Unrecognised(watch'.event))
            => /\ ~watch'.event.called
               /\ UNCHANGED <<backlog, is_running, watcher, enqueued>>]_vars

\* A content edit of an image arrived while a build was running and was
\* dropped.
C13_Witness ==
    /\ watch.event # NoEvent
    /\ watch.event.kind = "Modify(Data(Content))"
    /\ Unrecognised(watch.event)
    /\ extension(watch.event.paths[1].name) = <<"png">>
    /\ ~watch.event.called
    /\ is_running
    /\ PipelineLive

\* C14: of an event that reaches classification, a path matched by an
\* ignore rule is ignored whatever its extension and Builder::run is not
\* called; otherwise an rs path is the Rust change and a ts path the
\* TypeScript change.
C14_Classification ==
    (watch.event # NoEvent /\ Classified(watch.event)) =>
        LET path == watch.event.paths[1]
        IN  /\ is_ignored(watch.gitignore, path)
                => (watch.event.result = "IgnoredFileType" /\ ~watch.event.called)
            /\ (~is_ignored(watch.gitignore, path) /\ extension(path.name) = <<"rs">>)
                => (watch.event.result = "Rust" /\ watch.event.called)
            /\ (~is_ignored(watch.gitignore, path) /\ extension(path.name) = <<"ts">>)
                => (watch.event.result = "TypeScript" /\ watch.event.called)

\* An rs file matched by a .gitignore rule was edited and nothing was
\* enqueued.
C14_Witness ==
    /\ watch.event # NoEvent
    /\ Classified(watch.event)
    /\ watch.gitignore = "Some"
    /\ watch.event.paths[1].matches
    /\ extension(watch.event.paths[1].name) = <<"rs">>
    /\ watch.event.result = "IgnoredFileType"
    /\ backlog = {} /\ enqueued = 0


\* ------------------------------------------------------ asset fingerprinting
\* asset_hasher.rs.  A string or a path is the sequence of its characters.

\* str::contains: pat occurs in s.
contains(s, pat) ==
    \E i \in 1..(Len(s) - Len(pat) + 1) : SubSeq(s, i, i + Len(pat) - 1) = pat

\* str::replace: every non-overlapping occurrence of from, left to right.
RECURSIVE replace(_, _, _)
replace(s, from, to) ==
    IF Len(s) < Len(from) THEN s
    ELSE IF SubSeq(s, 1, Len(from)) = from
        THEN to \o replace(SubSeq(s, Len(from) + 1, Len(s)), from, to)
        ELSE <<Head(s)>> \o replace(Tail(s), from, to)

\* str::lines: the pieces between "\n", a "\r" right before the "\n" removed
\* with it; nothing is yielded after a final "\n".
RECURSIVE lines(_)
lines(s) ==
    IF s = << >> THEN << >>
    ELSE LET ends == { i \in 1..Len(s) : s[i] = "\n" }
         IN  IF ends = {} THEN <<s>>
             ELSE LET nl   == CHOOSE i \in ends : \A j \in ends : i <= j
                      stop == IF nl > 1 /\ s[nl - 1] = "\r" THEN nl - 2 ELSE nl - 1
                  IN  <<SubSeq(s, 1, stop)>> \o lines(SubSeq(s, nl + 1, Len(s)))

\* [String]::join
RECURSIVE join(_, _)
join(ls, sep) ==
    IF ls = << >> THEN << >>
    ELSE IF Len(ls) = 1 THEN ls[1]
    ELSE ls[1] \o sep \o join(Tail(ls), sep)

\* asset_hasher.rs:203-205
has_nohash(s) == contains(s, <<"n", "o", "h", "a", "s", "h">>)

\* std::path::Path::file_name of a path with a final component: the part
\* after the last "/".
file_name(path) ==
    LET seps == { i \in 1..Len(path) : path[i] = "/" }
    IN  IF seps = {} THEN path
        ELSE SubSeq(path, (CHOOSE i \in seps : \A j \in seps : j <= i) + 1, Len(path))

\* std::path::Path::with_extension: the extension of the file name replaced
\* by ext, or "." and ext added to a file name that has none.
with_extension(path, ext) ==
    LET old == extension(file_name(path))
    IN  IF old = << >> THEN path \o <<".">> \o ext
        ELSE SubSeq(path, 1, Len(path) - Len(old)) \o ext

\* Length of the lower-case hexadecimal SHA-256 digest (asset_hasher.rs:145)
DigestHexLen == 64

\* asset_hasher.rs:248
ShortHashLen == 7

HexDigits ==
    <<"0", "1", "2", "3", "4", "5", "6", "7", "8", "9", "a", "b", "c", "d", "e", "f">>

\* The characters files are made of, in the order of their codes.
Alphabet ==
    <<"/", ".", " ", "\n", "\r", "a", "d", "f", "h", "j", "m", "n", "o", "p", "r", "s", "t", "x", "y", "=">>

Code(c) == CHOOSE i \in 1..Len(Alphabet) : Alphabet[i] = c

\* Sha256 with HEXLOWER (asset_hasher.rs:138-145): a function of the bytes
\* alone, DigestHexLen hexadecimal digits long.  The digest itself is
\* stood for by a positional checksum of the bytes.
RECURSIVE Checksum(_, _)
Checksum(bytes, i) ==
    IF i > Len(bytes) THEN Len(bytes) + 1
    ELSE (Code(bytes[i]) * (i + 2) + 5 * Checksum(bytes, i + 1)) % 65521

Sha256Hex(bytes) ==
    LET sum == Checksum(bytes, 1)
    IN  [k \in 1..DigestHexLen |-> HexDigits[((sum \div k + sum * k) % 16) + 1]]


\* asset_hasher.rs:247-249
short_hash(asset) == SubSeq(asset.hash, 1, ShortHashLen)

\* asset_hasher.rs:220-227: "." and the short hash inserted at the last "."
\* of the whole URI (rfind), or at its end when it holds no ".".
uri_with_hash(asset) ==
    LET uri  == asset.uri
        dots == { i \in 1..Len(uri) : uri[i] = "." }
        at   == IF dots = {} THEN Len(uri) + 1
                ELSE CHOOSE i \in dots : \A j \in dots : j <= i
    IN  SubSeq(uri, 1, at - 1) \o <<".">> \o short_hash(asset) \o SubSeq(uri, at, Len(uri))

\* asset_hasher.rs:229-245
path_with_hash(asset) ==
    LET old_ext == extension(file_name(asset.path))
        new_ext == IF old_ext # << >> THEN short_hash(asset) \o <<".">> \o old_ext
                   ELSE short_hash(asset)
    IN  with_extension(asset.path, new_ext)

\* Config.dist_path
dist_path == <<"o">>

\* asset_hasher.rs:89-95: "/" and the path relative to dist_path.
get_dist_uri(path) ==
    <<"/">> \o SubSeq(path, Len(dist_path) + 2, Len(path))

\* asset_hasher.rs:137-149: a fresh hasher is fed the bytes of the file.
hash_asset(asset, bytes) ==
    [uri |-> asset.uri, path |-> asset.path, hash |-> Sha256Hex(bytes)]

\* asset_hasher.rs:165-177: the fold over the assets for one line.  The test
\* looks at the line as read, the replacement works on the accumulator.
RECURSIVE fold_assets(_, _, _)
fold_assets(line, acc, assets) ==
    IF assets = << >> THEN acc
    ELSE LET asset == Head(assets)
             next  == IF contains(line, asset.uri)
                         THEN replace(acc, asset.uri, uri_with_hash(asset))
                         ELSE acc
         IN  fold_assets(line, next, Tail(assets))

\* Mutant of update_line: the no-hash marker is not looked at.
update_line_without_marker(line, assets) == fold_assets(line, line, assets)

\* asset_hasher.rs:161-179
update_line(line, assets) ==
    IF has_nohash(line) THEN line ELSE fold_assets(line, line, assets)

\* asset_hasher.rs:158-181: the new content update_uris_in_file writes.
new_content(content, assets) ==
    LET old == lines(content)
    IN  join([k \in 1..Len(old) |-> update_line(old[k], assets)], <<"\n">>)


\* ------------------------------------------- the Build command, --hash-assets
\* main.rs:171-182, from the first build's output on.

\* Number of files in the output directory.
MaxAssets == 2

\* Files a build leaves in the output directory, relative to dist_path:
\* a.js, a.js.map, d.d/f, f and .h.
DistFiles ==
    { <<"a", ".", "j", "s">>, <<"a", ".", "j", "s", ".", "m", "a", "p">>,
      <<"d", ".", "d", "/", "f">>, <<"f">>, <<".", "h">> }

Bytes == { <<"x">>, <<"y">> }

\* The file of the output directory the web bundler writes.
WebBundle == dist_path \o <<"/", "a", ".", "j", "s">>

\* The source files: m.rs under core_project_path_src, i.ts under
\* web_project_path_src.
CoreFile == [tree |-> "core", name |-> <<"m", ".", "r", "s">>]

WebFile == [tree |-> "web", name |-> <<"i", ".", "t", "s">>]

SourcePaths == {CoreFile, WebFile}

\* Contents of the two source files a project may start with.
SourceTrees ==
    { [core |-> <<"=", "/", "a", ".", "j", "s", "\n",
                  "/", "a", ".", "j", "s", " ", "n", "o", "h", "a", "s", "h", "\n">>,
       web  |-> <<"/", "a", ".", "j", "s", ".", "m", "a", "p", "\n">>],
      [core |-> <<"/", "d", ".", "d", "/", "f", "\r", "\n", "x">>,
       web  |-> <<"x", "\n">>],
      [core |-> <<"x", "\n">>,
       web  |-> <<"=", "/", "a", ".", "j", "s", "\n">>],
      [core |-> <<"/", "f", " ", "=", "/", "a", ".", "j", "s", "\n">>,
       web  |-> <<"/", "a", ".", "j", "s", " ", "n", "o", "h", "a", "s", "h", "\n">>] }

\* Mutant of BuildCommandSteps: the assets are renamed before the rebuild.
BuildCommandStepsRenameFirst ==
    <<"collect_hashed_dist_assets", "update_uris_in_files", "rename_assets",
      "rust_builder_run", "web_builder_run">>

\* main.rs:175-181
BuildCommandSteps ==
    <<"collect_hashed_dist_assets", "update_uris_in_files", "rust_builder_run",
      "web_builder_run", "rename_assets">>

NoError == [variant |-> "none"]

\* main.rs:171: the first build is over, its output is in the output
\* directory and hash_assets is set.
InitHash ==
    /\ InitScheduler
    /\ pipeline = NoPipeline
    /\ watch = NoWatch
    /\ \E dist \in SUBSET DistFiles, tree \in SourceTrees :
         /\ Cardinality(dist) \in 1..MaxAssets
         /\ \E bytes \in [{dist_path \o <<"/">> \o f : f \in dist} -> Bytes] :
              fs = [src |-> [p \in SourcePaths |->
                               IF p = CoreFile THEN tree.core ELSE tree.web],
                    dist |-> bytes]
    /\ cmd = [pc |-> "run", step |-> 1, sub |-> "start", next |-> 1,
              dist_assets |-> << >>, assets |-> << >>, files |-> << >>,
              error |-> NoError,
              read |-> << >>,     \* the bytes hashed for each asset
              before |-> << >>,   \* the source files as Phase A found them
              trace |-> << >>,    \* the steps completed so far
              rebuild_failed |-> {}]  \* the rebuilds whose process exited with a failure

\* The call of main.rs:175-181 the command is in.
Phase ==
    IF cmd.pc = "run" THEN BuildCommandSteps[cmd.step] ELSE "none"

\* The call returned Ok: on to the next one, or out of the command.
Advance(c) ==
    [c EXCEPT !.step = @ + 1, !.sub = "start", !.next = 1,
              !.pc = IF c.step = Len(BuildCommandSteps) THEN "done" ELSE "run"]

\* unwrap() or expect() on an Err: the process panics.
Panic(c, err) == [c EXCEPT !.pc = "panicked", !.error = err]

\* asset_hasher.rs:77-87: the files of the output directory in the order
\* WalkDir yields them, each with its URI.
CollectDistAssets ==
    /\ Phase = "collect_hashed_dist_assets"
    /\ cmd.sub = "start"
    /\ LET paths == DOMAIN fs.dist
           n     == Cardinality(paths)
       IN  \E walk \in [1..n -> paths] :
             /\ \A i, j \in 1..n : i # j => walk[i] # walk[j]
             /\ cmd' = [cmd EXCEPT !.sub = "each",
                          !.dist_assets = [k \in 1..n |->
                              [uri |-> get_dist_uri(walk[k]), path |-> walk[k]]]]
    /\ UNCHANGED <<schedVars, pipeline, watch, fs>>


\* What a step on a file can meet.
IoOutcomes == {"ok", "io_error"}

\* Mutant of HashAsset: one hasher is kept for all the assets, so a digest
\* covers the bytes of the assets hashed before as well.
HashAssetReusingHasher(outcome) ==
    /\ Phase = "collect_hashed_dist_assets"
    /\ cmd.sub = "each"
    /\ cmd.next <= Len(cmd.dist_assets)
    /\ outcome = "ok"
    /\ LET asset == cmd.dist_assets[cmd.next]
           fed   == IF cmd.assets = << >> THEN << >>
                    ELSE fs.dist[cmd.assets[Len(cmd.assets)].path]
       IN  cmd' = [cmd EXCEPT !.next = @ + 1,
                      !.assets = Append(@, hash_asset(asset, fed \o fs.dist[asset.path])),
                      !.read = Append(@, fs.dist[asset.path]),
                      !.trace = Append(@, "hash_asset")]
    /\ UNCHANGED <<schedVars, pipeline, watch, fs>>

\* asset_hasher.rs:48-55 with 137-149: the next asset is hashed, or the
\* first Err ends the collect and main.rs:175 unwraps it.
HashAsset(outcome) ==
    /\ Phase = "collect_hashed_dist_assets"
    /\ cmd.sub = "each"
    /\ IF cmd.next > Len(cmd.dist_assets)
          THEN /\ outcome = "ok"
               /\ cmd' = Advance(cmd)
          ELSE LET asset == cmd.dist_assets[cmd.next]
               IN  IF outcome = "ok"
                      THEN cmd' = [cmd EXCEPT !.next = @ + 1,
                                      !.assets = Append(@, hash_asset(asset, fs.dist[asset.path])),
                                      !.read = Append(@, fs.dist[asset.path]),
                                      !.trace = Append(@, "hash_asset")]
                      ELSE cmd' = Panic(cmd, [variant |-> "OpenAssetFile",
                                              io |-> "PermissionDenied"])
    /\ UNCHANGED <<schedVars, pipeline, watch, fs>>

\* asset_hasher.rs:97-115: the files of one tree with the given extension.
collect_files_by_ext(tree, ext) ==
    { p \in DOMAIN fs.src : p.tree = tree /\ extension(p.name) = ext }

\* asset_hasher.rs:58-61: the rs files of the native tree, then the ts files
\* of the web tree, each group in the order WalkDir yields it.
CollectFiles ==
    /\ Phase = "update_uris_in_files"
    /\ cmd.sub = "start"
    /\ LET rust_files == collect_files_by_ext("core", <<"r", "s">>)
           typescript_files == collect_files_by_ext("web", <<"t", "s">>)
           r == Cardinality(rust_files)
           t == Cardinality(typescript_files)
       IN  \E rs \in [1..r -> rust_files], ts \in [1..t -> typescript_files] :
             /\ \A i, j \in 1..r : i # j => rs[i] # rs[j]
             /\ \A i, j \in 1..t : i # j => ts[i] # ts[j]
             /\ cmd' = [cmd EXCEPT !.sub = "each", !.files = rs \o ts,
                                   !.before = fs.src]
    /\ UNCHANGED <<schedVars, pipeline, watch, fs>>

\* asset_hasher.rs:63-65 with 151-191: the next file is read, rewritten and
\* written back, or the first Err leaves the loop and main.rs:176 unwraps it.
UpdateUrisInFile(outcome) ==
    /\ Phase = "update_uris_in_files"
    /\ cmd.sub = "each"
    /\ IF cmd.next > Len(cmd.files)
          THEN /\ outcome = "ok"
               /\ cmd' = Advance(cmd)
               /\ fs' = fs
          ELSE LET file_path == cmd.files[cmd.next]
               IN  CASE outcome = "ok" ->
                          /\ fs' = [fs EXCEPT !.src[file_path] = new_content(@, cmd.assets)]
                          /\ cmd' = [cmd EXCEPT !.next = @ + 1,
                                        !.trace = Append(@, "update_uris_in_file")]
                     [] outcome = "read_error" ->
                          /\ fs' = fs
                          /\ cmd' = Panic(cmd, [variant |-> "ReadFile",
                                                io |-> "PermissionDenied"])
                     [] outcome = "write_error" ->
                          /\ fs' = fs
                          /\ cmd' = Panic(cmd, [variant |-> "WriteSourceFile",
                                                io |-> "PermissionDenied"])
    /\ UNCHANGED <<schedVars, pipeline, watch>>

\* What a builder's external commands can do (see Outcomes).
RebuildOutcomes == {"success", "exit_failure", "failed_to_execute"}

\* main.rs:178: rust_builder.run().expect(..)
RustBuilderRun(outcome) ==
    /\ Phase = "rust_builder_run"
    /\ cmd' = IF exec_run(outcome) = "Err"
                THEN Panic(cmd, [variant |-> "Rust build failed"])
                ELSE [Advance(cmd) EXCEPT
                        !.trace = Append(@, "rust_builder_run"),
                        !.rebuild_failed = IF outcome = "exit_failure"
                                              THEN @ \cup {"rust_builder_run"} ELSE @]
    /\ UNCHANGED <<schedVars, pipeline, watch, fs>>

\* main.rs:179: web_builder.run().expect(..).  A bundler that ran to the end
\* has written its bundle anew, with whatever bytes the sources now give.
WebBuilderRun(outcome) ==
    /\ Phase = "web_builder_run"
    /\ cmd' = IF exec_run(outcome) = "Err"
                THEN Panic(cmd, [variant |-> "Web build failed"])
                ELSE [Advance(cmd) EXCEPT
                        !.trace = Append(@, "web_builder_run"),
                        !.rebuild_failed = IF outcome = "exit_failure"
                                              THEN @ \cup {"web_builder_run"} ELSE @]
    /\ IF outcome = "success" /\ WebBundle \in DOMAIN fs.dist
          THEN \E bytes \in Bytes : fs' = [fs EXCEPT !.dist[WebBundle] = bytes]
          ELSE fs' = fs
    /\ UNCHANGED <<schedVars, pipeline, watch>>

\* fs::rename in the output directory
rename(dist, from, to) ==
    [p \in (DOMAIN dist \ {from}) \cup {to} |-> IF p = to THEN dist[from] ELSE dist[p]]

\* asset_hasher.rs:70-75 with 193-200: the next asset is renamed, or the
\* first Err ends the collect and main.rs:181 unwraps it.
RenameAsset(outcome) ==
    /\ Phase = "rename_assets"
    /\ IF cmd.next > Len(cmd.assets)
          THEN /\ outcome = "ok"
               /\ cmd' = Advance(cmd)
               /\ fs' = fs
          ELSE LET asset == cmd.assets[cmd.next]
               IN  IF outcome = "ok" /\ asset.path \in DOMAIN fs.dist
                      THEN /\ fs' = [fs EXCEPT !.dist = rename(@, asset.path,
                                                                 path_with_hash(asset))]
                           /\ cmd' = [cmd EXCEPT !.next = @ + 1,
                                         !.trace = Append(@, "rename_asset")]
                      ELSE /\ fs' = fs
                           /\ cmd' = Panic(cmd, [variant |-> "RenameAssetFile",
                                                 io |-> "PermissionDenied"])
    /\ UNCHANGED <<schedVars, pipeline, watch>>

NextHash ==
    \/ CollectDistAssets
    \/ \E outcome \in IoOutcomes : HashAsset(outcome)
    \/ CollectFiles
    \/ \E outcome \in {"ok", "read_error", "write_error"} : UpdateUrisInFile(outcome)
    \/ \E outcome \in RebuildOutcomes : RustBuilderRun(outcome)
    \/ \E outcome \in RebuildOutcomes : WebBuilderRun(outcome)
    \/ \E outcome \in IoOutcomes : RenameAsset(outcome)

SpecHash == InitHash /\ [][NextHash]_vars


\* ------------------------------------------------------------------ C15
\* The hashed URI as the claim words it: "." and the short hash inserted
\* before the final extension of the file name, or appended to a URI whose
\* file name has no extension.
HashedUriByFileName(asset) ==
    LET name == file_name(asset.uri)
        ext  == extension(name)
        hash == <<".">> \o short_hash(asset)
    IN  IF ext = << >> THEN asset.uri \o hash
        ELSE SubSeq(asset.uri, 1, Len(asset.uri) - Len(ext) - 1) \o hash
                \o <<".">> \o ext

\* C15: the hashed URI of every asset is its URI with "." and the first 7
\* hex characters of the digest inserted before the final extension of the
\* file name, or appended when the file name has no extension.
C15_HashedUriFormat ==
    \A k \in 1..Len(cmd.assets) :
        /\ Len(short_hash(cmd.assets[k])) = 7
        /\ uri_with_hash(cmd.assets[k]) = HashedUriByFileName(cmd.assets[k])

\* ------------------------------------------------------------------ C16
\* The second fingerprinting pass over the k-th asset, made now.
SecondPass(k) ==
    hash_asset([uri |-> cmd.assets[k].uri, path |-> cmd.assets[k].path],
               fs.dist[cmd.assets[k].path])

BytesUnchanged(k) ==
    /\ cmd.assets[k].path \in DOMAIN fs.dist
    /\ fs.dist[cmd.assets[k].path] = cmd.read[k]

C17_NoHashLineNeverRewritten ==
    [][\A p \in SourcePaths :
         LET old == lines(fs.src[p])
             new == lines(fs'.src[p])
         IN  \A k \in 1..Len(old) :
                has_nohash(old[k]) => (k <= Len(new) /\ new[k] = old[k])]_vars

\* The file m.rs was rewritten: its line with the marker still holds the URI
\* of a hashed asset, another line of it now holds that asset's hashed URI.
C17_Witness ==
    /\ cmd.pc = "run"
    /\ cmd.before # << >>
    /\ fs.src[CoreFile] # cmd.before[CoreFile]
    /\ \E k, m \in 1..Len(lines(fs.src[CoreFile])), a \in 1..Len(cmd.assets) :
         /\ has_nohash(lines(fs.src[CoreFile])[k])
         /\ contains(lines(fs.src[CoreFile])[k], cmd.assets[a].uri)
         /\ lines(fs.src[CoreFile])[k] = lines(cmd.before[CoreFile])[k]
         /\ contains(lines(fs.src[CoreFile])[m], uri_with_hash(cmd.assets[a]))


\* ------------------------------------------------------------------ C18
\* The steps the command has completed.
StepsDone == { cmd.trace[i] : i \in 1..Len(cmd.trace) }

\* update_uris_in_files returned an Err for the file cmd.files[cmd.next].
PhaseAFailed ==
    /\ cmd.pc = "panicked"
    /\ cmd.error.variant \in {"ReadFile", "WriteSourceFile"}

\* The error value carries the path of the file.
ErrorNames(err, file_path) ==
    "path" \in DOMAIN err /\ err.path = file_path

\* C18: when Phase A fails on a file X, the files before X are rewritten,
\* the files after X are as they were, the error identifies X, and no
\* rebuild has run and no asset has been renamed.
C18_PhaseAFailureStopsTheRun ==
    PhaseAFailed =>
        /\ \A j \in 1..(cmd.next - 1) :
              fs.src[cmd.files[j]] = new_content(cmd.before[cmd.files[j]], cmd.assets)
        /\ \A j \in (cmd.next + 1)..Len(cmd.files) :
              fs.src[cmd.files[j]] = cmd.before[cmd.files[j]]
        /\ ErrorNames(cmd.error, cmd.files[cmd.next])
        /\ StepsDone \cap {"rust_builder_run", "web_builder_run", "rename_asset"} = {}
        /\ \A k \in 1..Len(cmd.assets) : cmd.assets[k].path \in DOMAIN fs.dist


\* ------------------------------------------------------------------ C19
\* The pieces of a line between the characters that cannot be part of a
\* URI (here " " and "=").
RECURSIVE split(_)
split(line) ==
    LET stops == { i \in 1..Len(line) : line[i] \in {" ", "="} }
    IN  IF stops = {} THEN <<line>>
        ELSE LET at == CHOOSE i \in stops : \A j \in stops : i <= j
             IN  <<SubSeq(line, 1, at - 1)>> \o split(SubSeq(line, at + 1, Len(line)))

\* The URI names a file of the output directory.
Resolves(uri) == (dist_path \o uri) \in DOMAIN fs.dist

AssetUris == { cmd.assets[k].uri : k \in 1..Len(cmd.assets) }

\* Every reference to an asset in a line that Phase A was free to rewrite
\* names, as the line reads now, a file of the output directory.
LineResolves(old, new) ==
    \/ has_nohash(old)
    \/ /\ Len(split(new)) = Len(split(old))
       /\ \A i \in 1..Len(split(old)) :
             split(old)[i] \in AssetUris => Resolves(split(new)[i])

\* C19: after a run in which every step succeeded, every reference that
\* Phase A rewrote in the source files names an existing file of the output
\* directory, whatever the set of assets.
C19_HashedUrisResolve ==
    cmd.pc = "done" =>
        \A p \in SourcePaths :
            /\ Len(lines(fs.src[p])) = Len(lines(cmd.before[p]))
            /\ \A k \in 1..Len(lines(cmd.before[p])) :
                  LineResolves(lines(cmd.before[p])[k], lines(fs.src[p])[k])


\* ------------------------------------------------------------------ C20
\* The place of a step in the order hash, rewrite, native build, web build,
\* rename.
Rank(step) ==
    CASE step = "hash_asset" -> 1
      [] step = "update_uris_in_file" -> 2
      [] step = "rust_builder_run" -> 3
      [] step = "web_builder_run" -> 4
      [] step = "rename_asset" -> 5

Count(step) == Cardinality({ i \in 1..Len(cmd.trace) : cmd.trace[i] = step })

\* C20: the steps of the fingerprinting run come in the order hash, rewrite,
\* native build, web build, rename; the rewrite starts after every asset is
\* hashed, the rebuild after every source file is rewritten, and the first
\* rename after both builds have returned.
C20_FingerprintingOrder ==
    cmd.pc # "none" =>
        /\ \A i, j \in 1..Len(cmd.trace) :
              i < j => Rank(cmd.trace[i]) <= Rank(cmd.trace[j])
        /\ "update_uris_in_file" \in StepsDone
              => Count("hash_asset") = Cardinality(DOMAIN fs.dist)
        /\ "rust_builder_run" \in StepsDone
              => Count("update_uris_in_file") = Cardinality(SourcePaths)
        /\ "web_builder_run" \in StepsDone => "rust_builder_run" \in StepsDone
        /\ "rename_asset" \in StepsDone
              => {"rust_builder_run", "web_builder_run"} \subseteq StepsDone

\* A whole run: two assets hashed, two files rewritten, both builds, two
\* renames.
C20_Witness ==
    /\ cmd.pc = "done"
    /\ cmd.trace = <<"hash_asset", "hash_asset", "update_uris_in_file",
                     "update_uris_in_file", "rust_builder_run", "web_builder_run",
                     "rename_asset", "rename_asset">>


\* ------------------------------------------------------------------ C21
\* rename_assets returned an Err for the asset cmd.assets[cmd.next] and the
\* command is over.
RenameFailed ==
    /\ cmd.pc = "panicked"
    /\ cmd.error.variant = "RenameAssetFile"

Renamed(k) ==
    /\ path_with_hash(cmd.assets[k]) \in DOMAIN fs.dist
    /\ cmd.assets[k].path \notin DOMAIN fs.dist

\* C21: when the rename of one asset fails, the assets renamed before it
\* stay renamed and the assets after it are renamed all the same.
C21_RenameFailureIsPerAsset ==
    RenameFailed =>
        \A k \in 1..Len(cmd.assets) : k # cmd.next => Renamed(k)


\* ------------------------------------------- file_util::write step by step
\* One call of update_uris_in_file (asset_hasher.rs:151-191) with the steps
\* of file_util::read and file_util::write (file_util.rs:13-39) apart.  Here
\* fs.src holds the content and fs.mode the permission bits of every file
\* that exists, the temporary file included.

\* Mutant of tmp_path: the file is created and written at its own path.
tmp_path_in_place(path) == path

\* file_util.rs:27
tmp_path(path) ==
    [tree |-> path.tree, name |-> with_extension(path.name, <<"t", "m", "p">>)]

\* Permission bits a source file may have; File::create gives a new file
\* the bits the umask leaves.
Permissions == {"644", "755"}

CreateMode == "644"

\* The assets the call is given: one hashed file of the output directory.
WriteAssets ==
    { <<hash_asset([uri |-> get_dist_uri(dist_path \o <<"/">> \o f),
                    path |-> dist_path \o <<"/">> \o f], <<"x">>)>> : f \in DistFiles }

\* Contents the file may have before the call.
WriteContents ==
    { tree.core : tree \in SourceTrees } \cup { tree.web : tree \in SourceTrees }

InitWrite ==
    /\ InitScheduler
    /\ pipeline = NoPipeline
    /\ watch = NoWatch
    /\ \E content \in WriteContents, permissions \in Permissions,
          assets \in WriteAssets, stale \in BOOLEAN :
         \* stale: a file is already there at the temporary path
         /\ fs = [src  |-> IF stale
                              THEN (CoreFile :> content) @@ (tmp_path(CoreFile) :> <<"x">>)
                              ELSE (CoreFile :> content),
                  dist |-> << >>,
                  mode |-> IF stale
                              THEN (CoreFile :> permissions) @@ (tmp_path(CoreFile) :> CreateMode)
                              ELSE (CoreFile :> permissions)]
         /\ cmd = [pc |-> "read", file_path |-> CoreFile, assets |-> assets,
                   before |-> [content |-> content, permissions |-> permissions,
                               \* the files there before the call
                               files |-> IF stale
                                            THEN (CoreFile :> content)
                                                    @@ (tmp_path(CoreFile) :> <<"x">>)
                                            ELSE (CoreFile :> content)],
                   old_file |-> [content |-> << >>, permissions |-> "none"],
                   new_file |-> [content |-> << >>, permissions |-> "none"],
                   written |-> 0, result |-> "none"]

\* A step of the call returns Err: update_uris_in_file is left through `?`.
Return(c, result) == [c EXCEPT !.pc = "returned", !.result = result]

\* asset_hasher.rs:156-186 with file_util.rs:13-24: the file is read and the
\* new content computed.
ReadFile(outcome) ==
    /\ cmd.pc = "read"
    /\ cmd' = IF outcome = "ok"
                THEN [cmd EXCEPT !.pc = "create",
                        !.old_file = [content |-> fs.src[cmd.file_path],
                                      permissions |-> fs.mode[cmd.file_path]],
                        !.new_file = [content |-> new_content(fs.src[cmd.file_path], cmd.assets),
                                      permissions |-> fs.mode[cmd.file_path]]]
                ELSE Return(cmd, "ReadFile")
    /\ UNCHANGED <<schedVars, pipeline, watch, fs>>

\* file_util.rs:31: File::create makes the file or truncates the one there.
CreateTmp(outcome) ==
    /\ cmd.pc = "create"
    /\ LET tmp == tmp_path(cmd.file_path)
       IN  IF outcome = "ok"
              THEN /\ fs' = [fs EXCEPT
                               !.src = (tmp :> << >>) @@ @,
                               !.mode = IF tmp \in DOMAIN @ THEN @ ELSE (tmp :> CreateMode) @@ @]
                   /\ cmd' = [cmd EXCEPT !.pc = "set_permissions"]
              ELSE /\ fs' = fs
                   /\ cmd' = Return(cmd, "WriteSourceFile")
    /\ UNCHANGED <<schedVars, pipeline, watch>>

\* file_util.rs:32
SetPermissions(outcome) ==
    /\ cmd.pc = "set_permissions"
    /\ IF outcome = "ok"
          THEN /\ fs' = [fs EXCEPT !.mode[tmp_path(cmd.file_path)] = cmd.new_file.permissions]
               /\ cmd' = [cmd EXCEPT !.pc = "write_all"]
          ELSE /\ fs' = fs
               /\ cmd' = Return(cmd, "WriteSourceFile")
    /\ UNCHANGED <<schedVars, pipeline, watch>>

\* file_util.rs:33: write_all loops over write calls, each of which takes
\* some of the bytes left; the temporary file is closed when all are in.
WriteAll(outcome) ==
    /\ cmd.pc = "write_all"
    /\ LET content == cmd.new_file.content
           tmp     == tmp_path(cmd.file_path)
       IN  IF cmd.written = Len(content)
              THEN /\ outcome = "ok"
                   /\ fs' = fs
                   /\ cmd' = [cmd EXCEPT !.pc = "rename"]
              ELSE IF outcome = "ok"
                 THEN \E n \in 1..(Len(content) - cmd.written) :
                        /\ fs' = [fs EXCEPT !.src[tmp] =
                                     @ \o SubSeq(content, cmd.written + 1, cmd.written + n)]
                        /\ cmd' = [cmd EXCEPT !.written = @ + n]
                 ELSE /\ fs' = fs
                      /\ cmd' = Return(cmd, "WriteSourceFile")
    /\ UNCHANGED <<schedVars, pipeline, watch>>

\* file_util.rs:36: fs::rename puts the temporary file, content and
\* permission bits, in the place of the file in one step.
RenameTmp(outcome) ==
    /\ cmd.pc = "rename"
    /\ LET tmp == tmp_path(cmd.file_path)
       IN  IF outcome = "ok"
              THEN /\ fs' = [fs EXCEPT !.src = rename(@, tmp, cmd.file_path),
                                       !.mode = rename(@, tmp, cmd.file_path)]
                   /\ cmd' = Return(cmd, "Ok")
              ELSE /\ fs' = fs
                   /\ cmd' = Return(cmd, "WriteSourceFile")
    /\ UNCHANGED <<schedVars, pipeline, watch>>

NextWrite ==
    \/ \E outcome \in IoOutcomes : ReadFile(outcome)
    \/ \E outcome \in IoOutcomes : CreateTmp(outcome)
    \/ \E outcome \in IoOutcomes : SetPermissions(outcome)
    \/ \E outcome \in IoOutcomes : WriteAll(outcome)
    \/ \E outcome \in IoOutcomes : RenameTmp(outcome)

SpecWrite == InitWrite /\ [][NextWrite]_vars

\* ------------------------------------------------------------------ C22
\* C22: at every step of the call, the file at its own path holds the whole
\* old content or the whole new content, under its original permission
\* bits; the new content gets there by the rename of a temporary file, and
\* a call that returns Ok leaves the new content.
C22_NeverHalfWritten ==
    cmd.pc # "none" =>
        LET old == cmd.before.content
            new == new_content(cmd.before.content, cmd.assets)
        IN  /\ cmd.file_path \in DOMAIN fs.src
            /\ fs.src[cmd.file_path] \in {old, new}
            /\ fs.mode[cmd.file_path] = cmd.before.permissions
            /\ cmd.pc \in {"create", "set_permissions", "write_all", "rename"}
                  => fs.src[cmd.file_path] = old
            /\ cmd.result = "Ok" => fs.src[cmd.file_path] = new

\* write_all stopped half way: the temporary file holds a part of the new
\* content, which differs from the old one, and the file is as it was.
C22_Witness ==
    /\ cmd.pc = "returned"
    /\ cmd.result = "WriteSourceFile"
    /\ cmd.written > 0
    /\ cmd.written < Len(cmd.new_file.content)
    /\ cmd.new_file.content # cmd.before.content
    /\ cmd.before.permissions = "755"
    /\ fs.src[tmp_path(cmd.file_path)] = SubSeq(cmd.new_file.content, 1, cmd.written)
    /\ fs.src[cmd.file_path] = cmd.before.content


\* ------------------------------------------------------------------ C23
\* C23: build() spawns run_script only for a non-empty drained set, in the
\* watcher's context and in a build thread's.
C23_PipelineStartsWithChanges ==
    [][/\ WatcherSpawn => watcher.changes # {}
       /\ \A t \in BagToSet(threads) : ThreadSpawn(t) => t.changes # {}]_vars

\* ------------------------------------------------------------------ C24
\* C24: while a pipeline execution is in flight the running flag is true.
C24_RunningWhilePipelineInFlight == NumInFlight > 0 => is_running


\* ------------------------------------------------------------------ C25
\* Builder::run calls of one category: the first starts a build, the others
\* are made (build.rs:52-56, the insert) while that build is in flight.
EnqueueWhileBuilding ==
    /\ \/ enqueued = 0
       \/ started = 1 /\ NumInFlight = 1
    /\ Enqueue("Rust")

NextCoalesce ==
    \/ EnqueueWhileBuilding
    \/ (WatcherStep \/ ThreadStep)

SpecCoalesce == Init /\ [][NextCoalesce]_vars

\* C25: the calls made while the first build is in flight leave a single
\* pending entry and cause exactly one follow-up pipeline execution: never
\* more than two run_script calls are spawned, and two have been when the
\* scheduler has come to rest after such a call.
C25_Coalescing ==
    /\ Cardinality(backlog) <= 1
    /\ started <= 2
    /\ (AtRest /\ enqueued >= 2) => started = 2


\* ------------------------------------------------------------------ C26
\* C26: once the Builder::run calls have stopped (every context that can
\* step does, every pipeline ends, every lock acquisition succeeds), the
\* scheduler comes to rest for good with the flag false, the backlog empty
\* and no pipeline in flight; from such a state no build is started before
\* the next Builder::run call.
C26_EventuallyQuiescentForGood ==
    /\ <>[](AtRest /\ Quiescent)
    /\ [][(AtRest /\ Quiescent)
            => \/ enqueued' = enqueued + 1
               \/ (AtRest' /\ Quiescent' /\ started' = started)]_vars

\* At rest after a build and its follow-up.
C26_Witness == AtRest /\ Quiescent /\ started >= 2 /\ enqueued = started


\* ------------------------------------------------------------------ C27
\* The event kinds that tell of a file's content: creation of a file, change
\* of content, rename, removal.
FileContentKinds == {"Create(File)", "Modify(Data(Content))", "Modify(Name)", "Remove"}

\* What on_event makes of a path it got from an event.
ResultForPath(path) ==
    IF ~path.root THEN "RelativePath"
    ELSE IF classify_file(watch.gitignore, path).ok
        THEN classify_file(watch.gitignore, path).change
        ELSE "IgnoredFileType"

\* C27: of the event handled last, a file-content kind yields the first
\* path, which alone decides what follows; any other kind is ignored; a
\* file-content kind without a path is an error; neither calls Builder::run.
C27_OnlyFileContentKinds ==
    (watch.event # NoEvent /\ watch.event.kind # "NotifyError") =>
        /\ (watch.event.kind \in FileContentKinds /\ Len(watch.event.paths) > 0)
              => watch.event.result = ResultForPath(watch.event.paths[1])
        /\ (watch.event.kind \in FileContentKinds /\ Len(watch.event.paths) = 0)
              => (watch.event.result = "EventFilePath" /\ ~watch.event.called)
        /\ watch.event.kind \notin FileContentKinds
              => (watch.event.result = "IgnoredEvent" /\ ~watch.event.called)

\* A rename from logo.png to lib.rs was handled by its first path, and the
\* creation of a directory named like a source file was ignored before.
C27_Witness ==
    /\ watch.event.kind = "Modify(Name)"
    /\ Len(watch.event.paths) = 2
    /\ extension(watch.event.paths[2].name) = <<"rs">>
    /\ watch.event.result = "IgnoredFileType"
    /\ ~watch.event.called
    /\ enqueued = 0


\* ------------------------------------------------------------------ C28
\* An event for a source file of the project that the ignore rules let pass.
Recognised(event) ==
    /\ Classified(event)
    /\ ~is_ignored(watch.gitignore, event.paths[1])
    /\ extension(event.paths[1].name) \in {<<"rs">>, <<"ts">>}

\* C28: a step that handles an event ending in a classification error leaves
\* the scheduler as it was, the watcher idle in its callback included; and
\* once such an error has been handled, a step that handles an event for a
\* recognised source file calls Builder::run, which inserts the change.
C28_ClassificationErrorsNonFatal ==
    [][watch'.event # watch.event =>
         /\ watch'.event.result \in ClassificationErrors
               => /\ ~watch'.event.called
                  /\ UNCHANGED schedVars
         /\ (watch.failed /\ Recognised(watch'.event))
               => /\ watch'.event.called
                  /\ watch'.event.result \in backlog'
                  /\ enqueued' = enqueued + 1]_vars

\* A file outside the project root was reported, and the edit of a Rust file
\* that came next was classified and built.
C28_Witness ==
    /\ watch.failed
    /\ watch.event.printed = ""
    /\ watch.event.result = "Rust"
    /\ watch.event.called
    /\ enqueued = 1
    /\ started = 1


\* ------------------------------------------------------------------ C29
\* The URI of an asset stands in the line from position at on.
OccursAt(line, uri, at) ==
    /\ at + Len(uri) - 1 <= Len(line)
    /\ SubSeq(line, at, at + Len(uri) - 1) = uri

\* The literal occurrences of the assets' URIs in a line, each the position
\* and the index of the asset it names.
Occurrences(line, assets) ==
    { o \in (1..Len(line)) \X (1..Len(assets)) : OccursAt(line, assets[o[2]].uri, o[1]) }

\* Two occurrences share a character of the line.
Overlap(o, q, assets) ==
    /\ o[1] <= q[1] + Len(assets[q[2]].uri) - 1
    /\ q[1] <= o[1] + Len(assets[o[2]].uri) - 1

\* The ways to replace occurrences of a line once each: occurrences that do
\* not overlap, none left out that could still be replaced.
Readings(line, assets) ==
    { S \in SUBSET Occurrences(line, assets) :
        /\ \A o, q \in S : o # q => ~Overlap(o, q, assets)
        /\ \A o \in Occurrences(line, assets) : \E q \in S : Overlap(o, q, assets) }

\* The line with each occurrence of S replaced by the hashed URI of the
\* asset it names, the rest of the line kept.
RECURSIVE Render(_, _, _, _)
Render(line, at, S, assets) ==
    IF at > Len(line) THEN << >>
    ELSE IF \E o \in S : o[1] = at
        THEN LET o == CHOOSE q \in S : q[1] = at
             IN  uri_with_hash(assets[o[2]])
                    \o Render(line, at + Len(assets[o[2]].uri), S, assets)
        ELSE <<line[at]>> \o Render(line, at + 1, S, assets)

ReplacedOnce(old, new, assets) ==
    \E S \in Readings(old, assets) : new = Render(old, 1, S, assets)

\* C29: update_uris_in_file leaves every line without the no-hash marker
\* with each occurrence of an asset's URI replaced once by that asset's
\* hashed URI and with nothing else changed, so that no replacement has
\* worked on what another replacement wrote.
C29_EachOccurrenceReplacedOnce ==
    [][cmd'.trace = Append(cmd.trace, "update_uris_in_file") =>
         LET old == lines(fs.src[cmd.files[cmd.next]])
             new == lines(fs'.src[cmd.files[cmd.next]])
         IN  \A k \in 1..Len(old) :
                ~has_nohash(old[k])
                   => (k <= Len(new) /\ ReplacedOnce(old[k], new[k], cmd.assets))]_vars


\* ------------------------------------------------------------------ C30
\* C30: for every hashed asset, the hashed URI is "/" and the hashed path
\* relative to the output directory, so that both name the same file.
C30_HashedUriNamesHashedPath ==
    \A k \in 1..Len(cmd.assets) :
        uri_with_hash(cmd.assets[k]) = get_dist_uri(path_with_hash(cmd.assets[k]))


\* ------------------------------------------------------------------ C31
\* The files update_uris_in_files may rewrite: those collect_files_by_ext
\* gives, with the extension rs under the native tree or ts under the web
\* tree.
MayBeRewritten(p) ==
    \/ p.tree = "core" /\ extension(file_name(p.name)) = <<"r", "s">>
    \/ p.tree = "web" /\ extension(file_name(p.name)) = <<"t", "s">>

\* C31: at every step of the rewrite of a source file, every other file
\* that was there before the call is still there with the content it had,
\* and the output directory is as it was.
C31_OnlySourceFilesMutated ==
    cmd.pc \in {"read", "create", "set_permissions", "write_all", "rename", "returned"} =>
        /\ \A p \in DOMAIN cmd.before.files :
              ~MayBeRewritten(p) => (p \in DOMAIN fs.src /\ fs.src[p] = cmd.before.files[p])
        /\ fs.dist = << >>


\* ------------------------------------------------------------------ C32
\* No line of the content holds the URI of an asset.
NoAssetUri(content, assets) ==
    \A k \in 1..Len(lines(content)), a \in 1..Len(assets) :
        ~contains(lines(content)[k], assets[a].uri)

\* C32: update_uris_in_file leaves a file in which no line holds an asset
\* URI with the content it had, line terminators and trailing newline
\* included, and leaves any file with as many lines as it had.
C32_OnlyUrisChange ==
    [][cmd'.trace = Append(cmd.trace, "update_uris_in_file") =>
         LET old == fs.src[cmd.files[cmd.next]]
             new == fs'.src[cmd.files[cmd.next]]
         IN  /\ NoAssetUri(old, cmd.assets) => new = old
             /\ Len(lines(new)) = Len(lines(old))]_vars


\* ------------------------------------------- the Build command as a whole
\* main.rs:132-191.  cmd.script is the --script option, cmd.hash_assets the
\* --hash-assets flag; cmd.pc tells the call of main.rs:154-169 the command
\* is in, then "run" for the calls of main.rs:175-181, "done" when
\* rename_assets has returned, "exit0" at the end of the match arm.

\* What the bundler leaves in the output directory.
BuildOutputs ==
    { [p \in {dist_path \o <<"/">> \o f : f \in dist} |-> <<"x">>] :
         dist \in { d \in SUBSET DistFiles : Cardinality(d) \in 1..MaxAssets } }

InitBuild ==
    /\ InitScheduler
    /\ pipeline = NoPipeline
    /\ watch = NoWatch
    /\ \E tree \in SourceTrees :
         fs = [src |-> [p \in SourcePaths |-> IF p = CoreFile THEN tree.core ELSE tree.web],
               dist |-> << >>]
    /\ \E script \in {"Some", "None"}, hash_assets \in BOOLEAN :
         cmd = [pc |-> "cleaner", step |-> 1, sub |-> "start", next |-> 1,
                dist_assets |-> << >>, assets |-> << >>, files |-> << >>,
                error |-> NoError, read |-> << >>, before |-> << >>, trace |-> << >>,
                rebuild_failed |-> {},
                script |-> script, hash_assets |-> hash_assets]

\* process::exit(1) of main.rs:158 and 163
Exit(c, err) == [c EXCEPT !.pc = "exited", !.error = err]

\* main.rs:154: cleaner.run().expect(..)
CleanerRun(outcome) ==
    /\ cmd.pc = "cleaner"
    /\ cmd' = IF outcome = "ok"
                THEN [cmd EXCEPT !.pc = "first_rust_build",
                                 !.trace = Append(@, "cleaner_run")]
                ELSE Panic(cmd, [variant |-> "Cleaner failed"])
    /\ UNCHANGED <<schedVars, pipeline, watch, fs>>

\* main.rs:156-159: the first native build; an Err is printed and the
\* process exits with status 1.
FirstRustBuilderRun(outcome) ==
    /\ cmd.pc = "first_rust_build"
    /\ cmd' = IF exec_run(outcome) = "Err"
                THEN Exit(cmd, [variant |-> "Rust build failed"])
                ELSE [cmd EXCEPT !.pc = "first_web_build",
                                 !.trace = Append(@, "rust_builder_run")]
    /\ UNCHANGED <<schedVars, pipeline, watch, fs>>

\* main.rs:161-164: the first web build.  A bundler that ran to the end has
\* written its output.
FirstWebBuilderRun(outcome) ==
    /\ cmd.pc = "first_web_build"
    /\ cmd' = IF exec_run(outcome) = "Err"
                THEN Exit(cmd, [variant |-> "Web build failed"])
                ELSE [cmd EXCEPT !.pc = "before_asset_hash",
                                 !.trace = Append(@, "web_builder_run")]
    /\ IF outcome = "success"
          THEN \E output \in BuildOutputs : fs' = [fs EXCEPT !.dist = output]
          ELSE fs' = fs
    /\ UNCHANGED <<schedVars, pipeline, watch>>

\* Mutant of AfterBeforeHook: the block of main.rs:183-189 stands after the
\* `if hash_assets` block instead of inside it.
AfterBeforeHookToAfterHook(c) ==
    IF c.hash_assets THEN [c EXCEPT !.pc = "run"] ELSE [c EXCEPT !.pc = "done"]

\* main.rs:171: into the `if hash_assets` block, or past it to the end.
AfterBeforeHook(c) ==
    IF c.hash_assets THEN [c EXCEPT !.pc = "run"] ELSE [c EXCEPT !.pc = "exit0"]

\* main.rs:163-169: with a script, ScriptRunner::run(Event::BeforeAssetHash)
\* and expect(..) on its Result.
BeforeAssetHashHook(outcome) ==
    /\ cmd.pc = "before_asset_hash"
    /\ IF cmd.script = "Some"
          THEN cmd' = IF exec_run(outcome) = "Err"
                        THEN Panic([cmd EXCEPT !.trace = Append(@, "BeforeAssetHash")],
                                   [variant |-> "Post build runner failed"])
                        ELSE AfterBeforeHook([cmd EXCEPT !.trace = Append(@, "BeforeAssetHash")])
          ELSE /\ outcome = "success"
               /\ cmd' = AfterBeforeHook(cmd)
    /\ UNCHANGED <<schedVars, pipeline, watch, fs>>

\* main.rs:183-189: with a script, ScriptRunner::run(Event::AfterAssetHash)
\* and expect(..) on its Result; then the end of the match arm.
AfterAssetHashHook(outcome) ==
    /\ cmd.pc = "done"
    /\ IF cmd.script = "Some"
          THEN cmd' = IF exec_run(outcome) = "Err"
                        THEN Panic([cmd EXCEPT !.trace = Append(@, "AfterAssetHash")],
                                   [variant |-> "Post build runner failed"])
                        ELSE [cmd EXCEPT !.pc = "exit0",
                                         !.trace = Append(@, "AfterAssetHash")]
          ELSE /\ outcome = "success"
               /\ cmd' = [cmd EXCEPT !.pc = "exit0"]
    /\ UNCHANGED <<schedVars, pipeline, watch, fs>>

NextBuild ==
    \/ \E outcome \in IoOutcomes : CleanerRun(outcome)
    \/ \E outcome \in RebuildOutcomes : FirstRustBuilderRun(outcome)
    \/ \E outcome \in RebuildOutcomes : FirstWebBuilderRun(outcome)
    \/ \E outcome \in RebuildOutcomes : BeforeAssetHashHook(outcome)
    \/ NextHash
    \/ \E outcome \in RebuildOutcomes : AfterAssetHashHook(outcome)

SpecBuild == InitBuild /\ [][NextBuild]_vars


\* ------------------------------------------------------------------ C33
\* The places of a step in the steps the command has made.
Pos(step) == { i \in 1..Len(cmd.trace) : cmd.trace[i] = step }

FirstBuild == <<"cleaner_run", "rust_builder_run", "web_builder_run">>

\* C33: the hook is called with BeforeAssetHash right after the first build
\* and before any asset is hashed or any source rewritten; it is called with
\* AfterAssetHash only when every asset has been renamed, and is called so
\* at the end of a run with --hash-assets; without --hash-assets or without
\* a script that call is never made.
C33_HookPhases ==
    cmd.pc # "none" =>
        /\ \A i \in Pos("BeforeAssetHash") :
              /\ cmd.script = "Some"
              /\ SubSeq(cmd.trace, 1, i - 1) = FirstBuild
        /\ \A j \in Pos("hash_asset") \cup Pos("update_uris_in_file") :
              cmd.script = "Some" => \E i \in Pos("BeforeAssetHash") : i < j
        /\ \A i \in Pos("AfterAssetHash") :
              /\ cmd.script = "Some"
              /\ cmd.hash_assets
              /\ Count("rename_asset") = Len(cmd.assets)
              /\ \A k \in 1..Len(cmd.assets) : Renamed(k)
              /\ \A j \in Pos("rename_asset") \cup Pos("BeforeAssetHash") : j < i
        /\ Cardinality(Pos("BeforeAssetHash")) <= 1
        /\ Cardinality(Pos("AfterAssetHash")) <= 1
        /\ (cmd.pc = "exit0" /\ cmd.script = "Some")
              => (Pos("AfterAssetHash") # {} <=> cmd.hash_assets)

\* A whole run with a script and --hash-assets: both calls of the hook were
\* made, two assets were hashed and renamed in between.
C33_Witness ==
    /\ cmd.pc = "exit0"
    /\ cmd.script = "Some"
    /\ cmd.hash_assets
    /\ Len(cmd.assets) = 2
    /\ Pos("BeforeAssetHash") = {4}
    /\ Pos("AfterAssetHash") = {Len(cmd.trace)}
    /\ Count("rename_asset") = 2


\* ------------------------------------------------------------------ C34
\* A rebuild of main.rs:178-179 failed: its process could not be started, or
\* it ran and exited with a failure.
RebuildFailed ==
    \/ cmd.rebuild_failed # {}
    \/ cmd.pc = "panicked" /\ cmd.error.variant \in {"Rust build failed", "Web build failed"}

\* C34: once a rebuild has failed, no asset is renamed, every asset is in
\* the output directory under its original name, and the hook is not called
\* with AfterAssetHash.
C34_FailedRebuildRenamesNothing ==
    (cmd.pc # "none" /\ RebuildFailed) =>
        /\ Count("rename_asset") = 0
        /\ \A k \in 1..Len(cmd.assets) : cmd.assets[k].path \in DOMAIN fs.dist
        /\ Pos("AfterAssetHash") = {}


\* ------------------------------------------- the first build stage by stage
\* main.rs:136 and 156-169 with the builders' own steps: the native builder,
\* the web bundler and the hook, in the mode the --release flag gives.  Here
\* pipeline holds the mode, the script option, the index of the step in
\* progress, the steps started so far, the steps whose process exited with
\* a failure, and the error that ended the command.

Envs == {"Dev", "Release"}

\* main.rs:156-169: the steps made when none returns an error.
FirstBuildStages(env, script) ==
    RustBuilderStages(env) \o TypeScriptBuilderStages(env) \o PostBuildStages(script)

InitFirstBuild ==
    /\ InitScheduler
    /\ watch = NoWatch
    /\ fs = NoFiles
    /\ cmd = NoCommand
    /\ \E env \in Envs, script \in {"Some", "None"} :
         pipeline = [pc |-> "build", env |-> env, script |-> script, stage |-> 1,
                     trace |-> << >>, exit_failed |-> {}, err |-> "none"]

\* One step of a builder or of the hook finishes.  An Err leaves the builder
\* through `?`; main.rs:156-164 then exits, main.rs:168 panics.
FirstBuildStage ==
    /\ pipeline.pc = "build"
    /\ LET plan  == FirstBuildStages(pipeline.env, pipeline.script)
           stage == plan[pipeline.stage]
       IN  \E outcome \in Outcomes(stage) :
             pipeline' =
               [pipeline EXCEPT
                  !.trace = Append(@, stage),
                  !.exit_failed = IF outcome = "exit_failure" THEN @ \cup {stage} ELSE @,
                  !.err = IF StageResult(stage, outcome) = "Err"
                             THEN BuildErrorOf(stage) ELSE "none",
                  !.stage = IF StageResult(stage, outcome) = "Err" THEN 0 ELSE @ + 1,
                  !.pc = IF StageResult(stage, outcome) = "Err"
                            THEN (IF stage = "post_build_script" THEN "panicked" ELSE "exited")
                            ELSE IF pipeline.stage = Len(plan) THEN "built" ELSE "build"]
    /\ UNCHANGED <<schedVars, watch, fs, cmd>>

NextFirstBuild == FirstBuildStage

SpecFirstBuild == InitFirstBuild /\ [][NextFirstBuild]_vars

\* ------------------------------------------------------------------ C35
IsNpm(stage) == stage \in {"npm_install", "npm_run_build_dev", "npm_run_build_release"}

\* The build command of the mode.
NpmBuildOf(env) == IF env = "Dev" THEN "npm_run_build_dev" ELSE "npm_run_build_release"

\* TypeScriptBuilder::run has returned Ok.
WebBundlerDone ==
    /\ pipeline.pc \in {"build", "built", "panicked"}
    /\ pipeline.stage = 0 \/ pipeline.stage > Len(RustBuilderStages(pipeline.env)
                                                    \o TypeScriptBuilderStages(pipeline.env))
    /\ pipeline.err \in {"none", "PostBuildRunner"}

\* C35: in either mode a web bundler stage that returned Ok has run the
\* install and then the build command of the mode, and the build command is
\* never run after an install that failed.
C35_InstallThenBuildOfMode ==
    pipeline.pc \in {"build", "built", "panicked", "exited"} =>
        /\ WebBundlerDone
              => SelectSeq(pipeline.trace, IsNpm) = <<"npm_install", NpmBuildOf(pipeline.env)>>
        /\ "npm_install" \in pipeline.exit_failed
              => \A i \in 1..Len(pipeline.trace) :
                    pipeline.trace[i] \notin {"npm_run_build_dev", "npm_run_build_release"}

=============================================================================
